---- MODULE Spec2Model ----
(***************************************************************************)
(* Streaming pipeline of the chat client:                                  *)
(*   useStreamBuffer   (src/src/hooks/useStreamBuffer.ts)   Frame Buffer   *)
(*   streamChat        (src/src/services/openai.ts)         parser,        *)
(*                      reassembler and session controller                 *)
(*   useStreamingChat  (src/src/hooks/useStreamingChat.ts)  Chat Session   *)
(*                                                                         *)
(* JavaScript runs one task at a time, so every action below is one task   *)
(* (a click, a timer, a network event, an animation frame) or one          *)
(* microtask (the continuation of streamChat after an await).  Text is a   *)
(* sequence of characters; concatenation is \o.                            *)
(***************************************************************************)
EXTENDS Integers, Sequences, FiniteSets, TLC

(***************************************************************************)
(* Bounds of the model.                                                    *)
(***************************************************************************)
MaxSessions == 2      \* sendMessage calls in one behaviour
MaxReads == 3         \* body reads that deliver data, over all sessions
MaxSeq == 3           \* largest sequence number the server sends
MaxLen == 3           \* longest text appended to the Frame Buffer directly
MaxQueue == 3         \* most frame callbacks requested and not yet run

NoSession == 0
Sessions == 1..MaxSessions

Inputs == {<<"q">>}

(***************************************************************************)
(* Wire format.  A line of the body is described by what the parser looks  *)
(* at: whether it starts with "data: ", whether the rest is valid JSON,    *)
(* and the properties of the parsed object that streamChat reads.          *)
(***************************************************************************)
SeqNums == 0..MaxSeq
Deltas == {<<"a">>, <<"b">>, <<>>}

Line(prefix, json, hasSeq, seq, hasDelta, delta, type, id) ==
  [prefix |-> prefix, json |-> json, hasSeq |-> hasSeq, seq |-> seq,
   hasDelta |-> hasDelta, delta |-> delta, type |-> type, id |-> id]

DeltaLine(n, d) ==
  Line(TRUE, TRUE, TRUE, n, TRUE, d, "response.output_text.delta", "")

\* A text fragment without a sequence_number property.
UnnumberedLine(d) ==
  Line(TRUE, TRUE, FALSE, 0, TRUE, d, "response.output_text.delta", "")

CompletedLine(hasSeq, n, id) ==
  Line(TRUE, TRUE, hasSeq, n, FALSE, <<>>, "response.completed", id)

SearchingLine ==
  Line(TRUE, TRUE, FALSE, 0, FALSE, <<>>, "response.web_search_call.searching", "")

MalformedLine == Line(TRUE, FALSE, FALSE, 0, FALSE, <<>>, "", "")

BlankLine == Line(FALSE, FALSE, FALSE, 0, FALSE, <<>>, "", "")

(***************************************************************************)
(* VARIABLES                                                               *)
(***************************************************************************)
VARIABLES
  messages,         \* useStreamingChat: committed messages
  isStreaming,      \* useStreamingChat: streaming flag
  isLoading,        \* useStreamingChat: loading flag
  abortController,  \* useStreamingChat: session whose controller is held, or NoSession
  displayText,      \* useStreamBuffer: display snapshot
  bufferRef,        \* useStreamBuffer: accumulation buffer
  renderScheduled,  \* useStreamBuffer: "a publish is scheduled" flag
  rafQueue,         \* number of requestAnimationFrame callbacks not yet run
  frame,            \* history of the current refresh interval
  session,          \* streamChat invocations, by session
  nSessions,        \* number of sendMessage calls so far
  microtask,        \* session whose rejected await resumes next, or NoSession
  reads             \* number of data reads so far

vars == <<messages, isStreaming, isLoading, abortController, displayText,
          bufferRef, renderScheduled, rafQueue, frame, session, nSessions,
          microtask, reads>>


(***************************************************************************)
(* The state of the hooks as one record, so that the callbacks, which run  *)
(* in the middle of a streamChat step, can be composed.                    *)
(***************************************************************************)
Hook ==
  [messages |-> messages, isStreaming |-> isStreaming, isLoading |-> isLoading,
   abortController |-> abortController, displayText |-> displayText,
   bufferRef |-> bufferRef, renderScheduled |-> renderScheduled,
   rafQueue |-> rafQueue, frame |-> frame]

SetHook(h) ==
  /\ messages' = h.messages
  /\ isStreaming' = h.isStreaming
  /\ isLoading' = h.isLoading
  /\ abortController' = h.abortController
  /\ displayText' = h.displayText
  /\ bufferRef' = h.bufferRef
  /\ renderScheduled' = h.renderScheduled
  /\ rafQueue' = h.rafQueue
  /\ frame' = h.frame

(***************************************************************************)
(* useStreamBuffer                                                         *)
(***************************************************************************)
\* A bug appendChunk could have: a frame callback requested by every call.
appendChunkAlways(h, chunk) ==
  [h EXCEPT !.bufferRef = @ \o chunk,
            !.renderScheduled = TRUE,
            !.rafQueue = @ + 1,
            !.frame.appended = IF @ < 2 THEN @ + 1 ELSE @,
            !.frame.sinceClear = @ \o chunk]

\* A bug appendChunk could have: the text dropped while a publish is pending.
appendChunkWhenIdle(h, chunk) ==
  [h EXCEPT !.bufferRef = IF h.renderScheduled THEN @ ELSE @ \o chunk,
            !.renderScheduled = TRUE,
            !.rafQueue = IF h.renderScheduled THEN @ ELSE @ + 1,
            !.frame.appended = IF @ < 2 THEN @ + 1 ELSE @,
            !.frame.sinceClear = @ \o chunk]

\* appendChunk: the buffer grows at once; a frame callback is requested only
\* when renderScheduled is false.  frame.appended is history: the calls in
\* the current refresh interval, counted up to 2; frame.sinceClear is
\* history: the texts of the calls since the last clearBuffer, in call order.
appendChunk(h, chunk) ==
  [h EXCEPT !.bufferRef = @ \o chunk,
            !.renderScheduled = TRUE,
            !.rafQueue = IF h.renderScheduled THEN @ ELSE @ + 1,
            !.frame.appended = IF @ < 2 THEN @ + 1 ELSE @,
            !.frame.sinceClear = @ \o chunk]

\* A bug clearBuffer could have: the display snapshot left as it was.
clearBufferKeepsSnapshot(h) ==
  [h EXCEPT !.bufferRef = <<>>,
            !.renderScheduled = FALSE,
            !.frame.cleared = TRUE,
            !.frame.sinceClear = <<>>]

\* A bug clearBuffer could have: the accumulated text left in the buffer.
clearBufferKeepsText(h) ==
  [h EXCEPT !.displayText = <<>>,
            !.renderScheduled = FALSE,
            !.frame.cleared = TRUE,
            !.frame.sinceClear = <<>>]

\* clearBuffer: buffer, snapshot and flag are reset; no callback is removed
\* from the frame queue (the code never calls cancelAnimationFrame).
\* frame.cleared and frame.sinceClear are history.
clearBuffer(h) ==
  [h EXCEPT !.bufferRef = <<>>,
            !.displayText = <<>>,
            !.renderScheduled = FALSE,
            !.frame.cleared = TRUE,
            !.frame.sinceClear = <<>>]

getFullText(h) == h.bufferRef

\* A bug the callback could have: renderScheduled left set, so that no later
\* appendChunk requests a callback.
publishKeepsFlag(h) ==
  [h EXCEPT !.displayText = h.bufferRef]

\* The callback handed to requestAnimationFrame.
publish(h) ==
  [h EXCEPT !.displayText = h.bufferRef,
            !.renderScheduled = FALSE]

\* One display refresh runs every callback that was requested before it.
RECURSIVE runFrameCallbacks(_, _)
runFrameCallbacks(h, n) ==
  IF n = 0 THEN h ELSE runFrameCallbacks(publish(h), n - 1)

(***************************************************************************)
(* useStreamingChat                                                        *)
(***************************************************************************)
UserMessage(input) == [role |-> "user", content |-> input]
AssistantMessage(text) == [role |-> "assistant", content |-> text]

\* handleChunk: appendChunk(chunk); the debounced aria update is display only.
handleChunk(h, chunk) == appendChunk(h, chunk)

\* A bug the status callback could have: the commit reads the display
\* snapshot instead of getFullText().
statusCallbackSnapshot(h, status) ==
  CASE status = "streaming" ->
         [h EXCEPT !.isLoading = FALSE]
    [] status = "completed" ->
         [clearBuffer([h EXCEPT !.messages =
                         Append(@, AssistantMessage(h.displayText))])
            EXCEPT !.isStreaming = FALSE,
                   !.isLoading = FALSE,
                   !.abortController = NoSession]
    [] status \in {"error", "timeout", "cancelled"} ->
         [h EXCEPT !.isStreaming = FALSE,
                   !.isLoading = FALSE,
                   !.abortController = NoSession]
    [] OTHER -> h

\* A bug the status callback could have: the partial text committed on a
\* failed session as well.
statusCallbackCommitsPartial(h, status) ==
  CASE status = "streaming" ->
         [h EXCEPT !.isLoading = FALSE]
    [] status \in {"completed", "error", "timeout", "cancelled"} ->
         [clearBuffer([h EXCEPT !.messages =
                         Append(@, AssistantMessage(getFullText(h)))])
            EXCEPT !.isStreaming = FALSE,
                   !.isLoading = FALSE,
                   !.abortController = NoSession]
    [] OTHER -> h

\* A bug the status callback could have: a failed session leaves the loading
\* flag as it was.
statusCallbackKeepsLoading(h, status) ==
  CASE status = "streaming" ->
         [h EXCEPT !.isLoading = FALSE]
    [] status = "completed" ->
         [clearBuffer([h EXCEPT !.messages =
                         Append(@, AssistantMessage(getFullText(h)))])
            EXCEPT !.isStreaming = FALSE,
                   !.isLoading = FALSE,
                   !.abortController = NoSession]
    [] status \in {"error", "timeout", "cancelled"} ->
         [h EXCEPT !.isStreaming = FALSE,
                   !.abortController = NoSession]
    [] OTHER -> h

\* The status callback that sendMessage hands to streamChat.
statusCallback(h, status) ==
  CASE status = "streaming" ->
         [h EXCEPT !.isLoading = FALSE]
    [] status = "completed" ->
         [clearBuffer([h EXCEPT !.messages =
                         Append(@, AssistantMessage(getFullText(h)))])
            EXCEPT !.isStreaming = FALSE,
                   !.isLoading = FALSE,
                   !.abortController = NoSession]
    [] status \in {"error", "timeout", "cancelled"} ->
         [h EXCEPT !.isStreaming = FALSE,
                   !.isLoading = FALSE,
                   !.abortController = NoSession]
    [] OTHER -> h

(***************************************************************************)
(* streamChat.  A session record holds the locals of one invocation, the   *)
(* state of its AbortController, timer and body reader, and the history of *)
(* what it did (statuses, chunks, commits, arrived, released, ignored,     *)
(* unread, httpStatus, exit, event, caught).                               *)
(***************************************************************************)
Null == "null"

EmptyMap == [n \in {} |-> BlankLine]

IdleSession ==
  [pc |-> "idle", input |-> <<>>,
   timer |-> "unset", timerClears |-> 0,
   aborted |-> FALSE, reason |-> "undefined",
   reader |-> "none", releases |-> 0,
   chunkBuffer |-> EmptyMap, expectedSequence |-> 1,
   responseId |-> Null, result |-> "pending",
   statuses |-> <<>>, chunks |-> <<>>, commits |-> <<>>, arrived |-> <<>>,
   released |-> <<>>, ignored |-> 0, unread |-> 0, httpStatus |-> 0, exit |-> "none", event |-> "",
   caught |-> [isError |-> FALSE, name |-> "none", message |-> ""]]

\* The pair a streamChat step works on: the hooks and the running session.
World(s) == [h |-> Hook, s |-> session[s]]

SetWorld(s, w) ==
  /\ SetHook(w.h)
  /\ session' = [session EXCEPT ![s] = w.s]

\* onChunk(delta): handleChunk of the hook; chunks is history.
onChunk(w, delta) ==
  [h |-> handleChunk(w.h, delta),
   s |-> [w.s EXCEPT !.chunks = Append(@, delta)]]

\* onStatusChange(status, error): the hook's status callback; statuses and
\* commits (the messages the callback appended) are history.
onStatusChange(w, status, error) ==
  LET h2 == statusCallback(w.h, status) IN
  [h |-> h2,
   s |-> [w.s EXCEPT
            !.statuses = Append(@, [status |-> status, error |-> error]),
            !.commits = @ \o SubSeq(h2.messages, Len(w.h.messages) + 1,
                                    Len(h2.messages))]]

\* clearTimeout(timeoutId): a timer that has not fired never will.
clearTimeout(w) ==
  [w EXCEPT !.s.timer = IF @ = "armed" THEN "cleared" ELSE @,
            !.s.timerClears = @ + 1]

\* reader.releaseLock() in the finally block.
releaseLock(w) ==
  [w EXCEPT !.s.reader = "released", !.s.releases = @ + 1]

\* streamChat returns value.
return(w, value) ==
  [w EXCEPT !.s.pc = "done", !.s.result = value]

\* chunk.delta is truthy: present and not the empty string.
Truthy(chunk) == chunk.hasDelta /\ chunk.delta # <<>>

\* A bug the table could have: an entry that exists is kept, so that the first
\* fragment received with a number wins.
MapSetKeepsFirst(m, k, v) ==
  [n \in DOMAIN m \cup {k} |-> IF n \in DOMAIN m THEN m[n] ELSE v]

MapSet(m, k, v) == [n \in DOMAIN m \cup {k} |-> IF n = k THEN v ELSE m[n]]
MapDelete(m, k) == [n \in DOMAIN m \ {k} |-> m[n]]

\* A bug processBufferedChunks could have: "if" for "while", so that one
\* entry is released per call.
processBufferedChunksOnce(w) ==
  IF w.s.expectedSequence \in DOMAIN w.s.chunkBuffer
    THEN LET chunk == w.s.chunkBuffer[w.s.expectedSequence]
             w1 == IF Truthy(chunk) THEN onChunk(w, chunk.delta) ELSE w
         IN  [w1 EXCEPT !.s.chunkBuffer = MapDelete(@, w.s.expectedSequence),
                        !.s.released = Append(@, chunk),
                        !.s.expectedSequence = @ + 1]
    ELSE w

\* A bug processBufferedChunks could have: expectedSequence++ inside the
\* "if (chunk.delta)", so that a fragment without a delta is removed but not
\* counted.
RECURSIVE processBufferedChunksCountsDeltas(_)
processBufferedChunksCountsDeltas(w) ==
  IF w.s.expectedSequence \in DOMAIN w.s.chunkBuffer
    THEN LET chunk == w.s.chunkBuffer[w.s.expectedSequence]
             w1 == [w EXCEPT !.s.chunkBuffer = MapDelete(@, w.s.expectedSequence),
                             !.s.released = Append(@, chunk)]
         IN  IF Truthy(chunk)
               THEN processBufferedChunksCountsDeltas(
                      [onChunk(w1, chunk.delta) EXCEPT !.s.expectedSequence = @ + 1])
               ELSE w1
    ELSE w

\* processBufferedChunks: release the entries at expectedSequence, in order.
\* released is history: the fragments taken out of the table.
RECURSIVE processBufferedChunks(_)
processBufferedChunks(w) ==
  IF w.s.expectedSequence \in DOMAIN w.s.chunkBuffer
    THEN LET chunk == w.s.chunkBuffer[w.s.expectedSequence]
             w1 == IF Truthy(chunk) THEN onChunk(w, chunk.delta) ELSE w
         IN  processBufferedChunks(
               [w1 EXCEPT !.s.chunkBuffer = MapDelete(@, w.s.expectedSequence),
                          !.s.released = Append(@, chunk),
                          !.s.expectedSequence = @ + 1])
    ELSE w

\* A bug the reassembler could have: the drain pass run before the fragment
\* is stored, so that a fragment arriving in its turn waits for the next one.
bufferChunkDrainsFirst(w, parsed) ==
  LET w1 == processBufferedChunks(w) IN
  [w1 EXCEPT !.s.chunkBuffer = MapSet(@, parsed.seq, parsed),
             !.s.arrived = Append(@, parsed)]

\* A bug the reassembler could have: a fragment whose number has already
\* been released handed to the chunk callback as it arrives.
bufferChunkDeliversLate(w, parsed) ==
  IF parsed.seq >= 1 /\ parsed.seq < w.s.expectedSequence
    THEN LET w1 == [w EXCEPT !.s.arrived = Append(@, parsed)] IN
         IF Truthy(parsed) THEN onChunk(w1, parsed.delta) ELSE w1
    ELSE processBufferedChunks(
           [w EXCEPT !.s.chunkBuffer = MapSet(@, parsed.seq, parsed),
                     !.s.arrived = Append(@, parsed)])

\* chunkBuffer.set(parsed.sequence_number, parsed); processBufferedChunks().
\* arrived is history.
bufferChunk(w, parsed) ==
  processBufferedChunks(
    [w EXCEPT !.s.chunkBuffer = MapSet(@, parsed.seq, parsed),
              !.s.arrived = Append(@, parsed)])

\* A bug the loop could have: the reader released after the loop rather than
\* in a finally block, so that the return on the completion event skips it.
eventSwitchKeepsLock(w, parsed) ==
  CASE parsed.type = "response.completed" ->
         LET w1 == IF parsed.id # "" THEN [w EXCEPT !.s.responseId = parsed.id]
                                     ELSE w
             w2 == onStatusChange(clearTimeout(w1), "completed", "")
         IN  return([w2 EXCEPT !.s.exit = "event", !.s.event = parsed.id],
                    w2.s.responseId)
    [] parsed.type = "response.web_search_call.searching" ->
         onStatusChange(w, "streaming", "Searching the web...")
    [] OTHER -> w

\* switch (parsed.type)
eventSwitch(w, parsed) ==
  CASE parsed.type = "response.completed" ->
         LET w1 == IF parsed.id # "" THEN [w EXCEPT !.s.responseId = parsed.id]
                                     ELSE w
             w2 == onStatusChange(clearTimeout(w1), "completed", "")
         IN  releaseLock(return([w2 EXCEPT !.s.exit = "event", !.s.event = parsed.id],
                                w2.s.responseId))
    [] parsed.type = "response.web_search_call.searching" ->
         onStatusChange(w, "streaming", "Searching the web...")
    [] OTHER -> w

\* A bug the parser could have: JSON.parse outside the inner try, so that a
\* malformed line throws out of the read loop.
processLineThrows(w, line) ==
  IF line.prefix
    THEN IF line.json
           THEN eventSwitch(IF line.hasSeq THEN bufferChunk(w, line) ELSE w, line)
           ELSE return(onStatusChange(clearTimeout(releaseLock(w)), "error",
                                      "Unexpected token"), Null)
    ELSE [w EXCEPT !.s.ignored = @ + 1]

\* One line of a decoded chunk: the prefix test, JSON.parse (a failure is
\* swallowed), the sequence buffer, the event switch.  ignored is history: the
\* lines that were skipped.
processLine(w, line) ==
  IF line.prefix /\ line.json
    THEN eventSwitch(IF line.hasSeq THEN bufferChunk(w, line) ELSE w, line)
    ELSE [w EXCEPT !.s.ignored = @ + 1]

\* A bug the read loop could have: the lines after the completion event
\* processed as well.
RECURSIVE processLinesAll(_, _)
processLinesAll(w, lines) ==
  IF lines = <<>>
    THEN w
    ELSE processLinesAll(processLine(w, Head(lines)), Tail(lines))

\* for (const line of lines): stops when the completion event returns.  unread
\* is history: the lines of the chunk that were never looked at.
RECURSIVE processLines(_, _)
processLines(w, lines) ==
  IF lines = <<>> THEN w
  ELSE IF w.s.pc = "done" THEN [w EXCEPT !.s.unread = Len(lines)]
  ELSE processLines(processLine(w, Head(lines)), Tail(lines))

\* What the catch block is entered with.
Thrown(isError, name, message) ==
  [isError |-> isError, name |-> name, message |-> message]

\* A bug the catch block could have: the timer left armed.
catchBlockKeepsTimer(w, error) ==
  LET w2 == IF error.isError
              THEN IF error.name = "AbortError"
                     THEN IF w.s.reason = "timeout"
                            THEN onStatusChange(w, "timeout", "")
                            ELSE onStatusChange(w, "cancelled", "")
                     ELSE onStatusChange(w, "error", error.message)
              ELSE onStatusChange(w, "error", "Unknown error")
  IN  return([w2 EXCEPT !.s.exit = "catch", !.s.caught = error], Null)

\* A bug the catch block could have: error.message read from whatever was
\* thrown, so that a value that is not an Error reports no message.
catchBlockNoFallback(w, error) ==
  LET w1 == clearTimeout(w)
      w2 == IF error.name = "AbortError"
              THEN IF w1.s.reason = "timeout"
                     THEN onStatusChange(w1, "timeout", "")
                     ELSE onStatusChange(w1, "cancelled", "")
              ELSE onStatusChange(w1, "error", error.message)
  IN  return([w2 EXCEPT !.s.exit = "catch", !.s.caught = error], Null)

\* catch (error): clear the timer, report by the kind of the failure, return null.
catchBlock(w, error) ==
  LET w1 == clearTimeout(w)
      w2 == IF error.isError
              THEN IF error.name = "AbortError"
                     THEN IF w1.s.reason = "timeout"
                            THEN onStatusChange(w1, "timeout", "")
                            ELSE onStatusChange(w1, "cancelled", "")
                     ELSE onStatusChange(w1, "error", error.message)
              ELSE onStatusChange(w1, "error", "Unknown error")
  IN  return([w2 EXCEPT !.s.exit = "catch", !.s.caught = error], Null)

\* controller.abort(reason): the first reason is kept; a later abort of the
\* same signal changes nothing.
abort(s, reason) ==
  IF s.aborted THEN s ELSE [s EXCEPT !.aborted = TRUE, !.reason = reason]

\* streamChat is suspended in an await (fetch or reader.read).
Suspended(s) == s.pc \in {"fetch", "read"}

(***************************************************************************)
(* Initial state: the hooks as constructed, no session started.            *)
(***************************************************************************)
NoFrame ==
  [appended |-> 0, cleared |-> FALSE, publishes |-> 0,
   published |-> <<>>, buffer |-> <<>>]

Init ==
  /\ messages = <<>>
  /\ isStreaming = FALSE
  /\ isLoading = FALSE
  /\ abortController = NoSession
  /\ displayText = <<>>
  /\ bufferRef = <<>>
  /\ renderScheduled = FALSE
  /\ rafQueue = 0
  /\ frame = [appended |-> 0, cleared |-> FALSE, sinceClear |-> <<>>,
              last |-> NoFrame]
  /\ session = [s \in Sessions |-> IdleSession]
  /\ nSessions = 0
  /\ microtask = NoSession
  /\ reads = 0

(***************************************************************************)
(* Actions                                                                 *)
(***************************************************************************)
\* A bug sendMessage could have: the Frame Buffer not cleared, so that text
\* left by the previous turn is still there when the new session starts.
SendMessageKeepsBuffer(input) ==
  /\ microtask = NoSession
  /\ nSessions < MaxSessions
  /\ LET s == nSessions + 1
         h1 == [Hook EXCEPT !.abortController = s,
                            !.messages = Append(@, UserMessage(input))]
         h2 == [h1 EXCEPT !.isStreaming = TRUE,
                          !.isLoading = TRUE]
     IN  /\ SetHook(h2)
         /\ session' = [session EXCEPT ![s] =
                          [IdleSession EXCEPT !.pc = "fetch",
                                              !.input = input,
                                              !.timer = "armed"]]
         /\ nSessions' = s
  /\ UNCHANGED <<microtask, reads>>

\* A bug sendMessage could have: the list replaced by the new user message
\* instead of extended with it.
SendMessageResetsList(input) ==
  /\ microtask = NoSession
  /\ nSessions < MaxSessions
  /\ LET s == nSessions + 1
         h1 == [Hook EXCEPT !.abortController = s,
                            !.messages = <<UserMessage(input)>>]
         h2 == [clearBuffer(h1) EXCEPT !.isStreaming = TRUE,
                                       !.isLoading = TRUE]
     IN  /\ SetHook(h2)
         /\ session' = [session EXCEPT ![s] =
                          [IdleSession EXCEPT !.pc = "fetch",
                                              !.input = input,
                                              !.timer = "armed"]]
         /\ nSessions' = s
  /\ UNCHANGED <<microtask, reads>>

\* sendMessage(input): new controller, user message, clearBuffer, flags, and
\* the synchronous start of streamChat up to its await of fetch.
SendMessage(input) ==
  /\ microtask = NoSession
  /\ nSessions < MaxSessions
  /\ LET s == nSessions + 1
         h1 == [Hook EXCEPT !.abortController = s,
                            !.messages = Append(@, UserMessage(input))]
         h2 == [clearBuffer(h1) EXCEPT !.isStreaming = TRUE,
                                       !.isLoading = TRUE]
     IN  /\ SetHook(h2)
         /\ session' = [session EXCEPT ![s] =
                          [IdleSession EXCEPT !.pc = "fetch",
                                              !.input = input,
                                              !.timer = "armed"]]
         /\ nSessions' = s
  /\ UNCHANGED <<microtask, reads>>

\* The responses the server answers with; response.ok is a status in 200..299.
HttpStatuses == {200, 404, 500}

ok(status) == status \in 200..299

\* `API Error: ${response.status}`
ApiError(status) == "API Error: " \o ToString(status)

\* A bug the response check could have: response.ok never looked at, so that
\* the body of an error response is streamed.
FetchResolvesAnyStatus(s, status, hasBody) ==
  /\ microtask = NoSession
  /\ session[s].pc = "fetch"
  /\ ~session[s].aborted
  /\ LET w == [h |-> Hook, s |-> [session[s] EXCEPT !.httpStatus = status]] IN
       SetWorld(s,
         IF ~hasBody
           THEN catchBlock(w, Thrown(TRUE, "Error", "No response body"))
         ELSE [onStatusChange([w EXCEPT !.s.reader = "locked"], "streaming", "")
                 EXCEPT !.s.pc = "read"])
  /\ UNCHANGED <<nSessions, microtask, reads>>

\* fetch resolves: a non-success response or a missing body throws into the
\* catch block; otherwise the reader is taken, "streaming" is reported and the
\* loop awaits the first read.
FetchResolves(s, status, hasBody) ==
  /\ microtask = NoSession
  /\ session[s].pc = "fetch"
  /\ ~session[s].aborted
  /\ LET w == [h |-> Hook, s |-> [session[s] EXCEPT !.httpStatus = status]] IN
       SetWorld(s,
         IF ~ok(status)
           THEN catchBlock(w, Thrown(TRUE, "Error", ApiError(status)))
         ELSE IF ~hasBody
           THEN catchBlock(w, Thrown(TRUE, "Error", "No response body"))
         ELSE [onStatusChange([w EXCEPT !.s.reader = "locked"], "streaming", "")
                 EXCEPT !.s.pc = "read"])
  /\ UNCHANGED <<nSessions, microtask, reads>>

\* fetch rejects for a reason other than an abort (the network is down).
FetchFails(s) ==
  /\ microtask = NoSession
  /\ session[s].pc = "fetch"
  /\ ~session[s].aborted
  /\ SetWorld(s, catchBlock(World(s), Thrown(TRUE, "TypeError", "Failed to fetch")))
  /\ UNCHANGED <<nSessions, microtask, reads>>

\* reader.read() resolves with data: decode, split into lines, process each.
ReadChunk(s, lines) ==
  /\ microtask = NoSession
  /\ session[s].pc = "read"
  /\ ~session[s].aborted
  /\ reads < MaxReads
  /\ SetWorld(s, processLines(World(s), lines))
  /\ reads' = reads + 1
  /\ UNCHANGED <<nSessions, microtask>>

\* A bug the end of the loop could have: nothing reported when the body ends
\* without a completion event.
ReadDoneSilent(s) ==
  /\ microtask = NoSession
  /\ session[s].pc = "read"
  /\ ~session[s].aborted
  /\ LET w1 == clearTimeout(releaseLock(World(s)))
     IN  SetWorld(s, return([w1 EXCEPT !.s.exit = "exhausted"], w1.s.responseId))
  /\ UNCHANGED <<nSessions, microtask, reads>>

\* reader.read() resolves with done: leave the loop, release the reader, clear
\* the timer, report "completed", return responseId.
ReadDone(s) ==
  /\ microtask = NoSession
  /\ session[s].pc = "read"
  /\ ~session[s].aborted
  /\ LET w1 == clearTimeout(releaseLock(World(s)))
         w2 == onStatusChange(w1, "completed", "")
     IN  SetWorld(s, return([w2 EXCEPT !.s.exit = "exhausted"], w2.s.responseId))
  /\ UNCHANGED <<nSessions, microtask, reads>>

\* What a failed read rejects with: the TypeError of a broken connection, or
\* the value a stream was errored with, which need not be an Error object.
ReadFailures ==
  {Thrown(TRUE, "TypeError", "network error"), Thrown(FALSE, "", "")}

\* reader.read() rejects for a reason other than an abort: finally, then catch.
ReadFails(s, thrown) ==
  /\ microtask = NoSession
  /\ session[s].pc = "read"
  /\ ~session[s].aborted
  /\ SetWorld(s, catchBlock(releaseLock(World(s)), thrown))
  /\ UNCHANGED <<nSessions, microtask, reads>>

\* A bug the timer could have: the callback neither aborts the session nor
\* reports, so that nothing ends a session whose server has gone silent.
TimerFiresSilent(s) ==
  /\ microtask = NoSession
  /\ session[s].timer = "armed"
  /\ session' = [session EXCEPT ![s].timer = "fired"]
  /\ UNCHANGED <<messages, isStreaming, isLoading, abortController, displayText,
                 bufferRef, renderScheduled, rafQueue, frame, nSessions,
                 microtask, reads>>

\* The setTimeout callback: controller.abort("timeout"); onStatusChange("timeout").
\* The abort rejects the await streamChat is suspended in; its continuation is
\* the next thing to run.
TimerFires(s) ==
  /\ microtask = NoSession
  /\ session[s].timer = "armed"
  /\ LET w == [h |-> Hook,
               s |-> [abort(session[s], "timeout") EXCEPT !.timer = "fired"]]
     IN  SetWorld(s, onStatusChange(w, "timeout", ""))
  /\ microtask' = IF Suspended(session[s]) /\ ~session[s].aborted
                    THEN s ELSE NoSession
  /\ UNCHANGED <<nSessions, reads>>

\* cancelStream(): if (abortController) abortController.abort("cancelled").
\* What the call does to the sessions, given the controller the hook holds.
cancelStream(sessions, controller) ==
  IF controller # NoSession
    THEN [sessions EXCEPT ![controller] = abort(@, "cancelled")]
    ELSE sessions

\* The user cancels.  An abort that took effect rejects the await the session
\* is suspended in; its continuation is the next thing to run.
CancelStream ==
  /\ microtask = NoSession
  /\ session' = cancelStream(session, abortController)
  /\ microtask' = IF /\ abortController # NoSession
                     /\ Suspended(session[abortController])
                     /\ ~session[abortController].aborted
                    THEN abortController ELSE NoSession
  /\ UNCHANGED <<messages, isStreaming, isLoading, abortController, displayText,
                 bufferRef, renderScheduled, rafQueue, frame, nSessions, reads>>

\* What an aborted fetch or read rejects with.  The Fetch standard rejects
\* with the signal's abort reason (here the strings "timeout" and
\* "cancelled", which are not Error objects); runtimes and fetch libraries
\* that ignore the reason reject with a DOMException named "AbortError".
AbortRejections == {"AbortError", "reason"}

AbortThrown(kind) ==
  IF kind = "AbortError"
    THEN Thrown(TRUE, "AbortError", "The operation was aborted.")
    ELSE Thrown(FALSE, "", "")

\* The continuation of streamChat after its await was rejected by the abort:
\* the finally block if the reader was taken, then the catch block.
AbortRejects(s, kind) ==
  /\ microtask = s
  /\ LET w == World(s)
         w1 == IF w.s.pc = "read" THEN releaseLock(w) ELSE w
     IN  SetWorld(s, catchBlock(w1, AbortThrown(kind)))
  /\ microtask' = NoSession
  /\ UNCHANGED <<nSessions, reads>>

\* A display refresh: every requested callback runs.  frame.last is history.
Frame ==
  /\ microtask = NoSession
  /\ rafQueue > 0
  /\ LET h == runFrameCallbacks(Hook, rafQueue) IN
       SetHook([h EXCEPT !.rafQueue = 0,
                         !.frame = [appended |-> 0, cleared |-> FALSE,
                                    sinceClear |-> frame.sinceClear,
                                    last |-> [appended |-> frame.appended,
                                              cleared |-> frame.cleared,
                                              publishes |-> rafQueue,
                                              published |-> h.displayText,
                                              buffer |-> bufferRef]]])
  /\ UNCHANGED <<session, nSessions, microtask, reads>>

(***************************************************************************)
(* The Frame Buffer driven directly through the functions the hook         *)
(* returns, in any order.                                                  *)
(***************************************************************************)
AppendChunk(chunk) ==
  /\ Len(bufferRef) + Len(chunk) <= MaxLen
  /\ renderScheduled \/ rafQueue < MaxQueue
  /\ SetHook(appendChunk(Hook, chunk))
  /\ UNCHANGED <<session, nSessions, microtask, reads>>

ClearBuffer ==
  /\ SetHook(clearBuffer(Hook))
  /\ UNCHANGED <<session, nSessions, microtask, reads>>

(***************************************************************************)
(* What the server sends in one read.                                      *)
(***************************************************************************)
\* A server that sends its fragments in order, fragment n carrying the text
\* <<n>>, and may end the response with a completion event.
Chunks(s) ==
  {<<DeltaLine(n, <<n>>)>> : n \in {Len(session[s].arrived) + 1} \cap SeqNums}
    \cup {<<CompletedLine(FALSE, 0, "r1")>>}

\* Every kind of line the parser distinguishes, with any delta at any
\* sequence number.
AnyLines ==
  {DeltaLine(n, d) : n \in SeqNums, d \in Deltas}
    \cup {CompletedLine(FALSE, 0, "r1"), CompletedLine(FALSE, 0, "")}
    \cup {CompletedLine(TRUE, n, "r1") : n \in SeqNums}
    \cup {SearchingLine, MalformedLine, BlankLine, UnnumberedLine(<<"a">>)}

\* A line cut in two by a chunk boundary: the first piece keeps the prefix but
\* is no longer valid JSON, the second piece does not start with the prefix.
HeadOf(line) == [line EXCEPT !.json = FALSE]
TailOf(line) == [line EXCEPT !.prefix = FALSE]

SplitLines == {DeltaLine(1, <<"a">>), CompletedLine(FALSE, 0, "r1")}

\* One read delivers one line, two lines, or a piece of a line.
AnyChunks ==
  {<<l>> : l \in AnyLines}
    \cup {<<a, b>> : a \in {MalformedLine, BlankLine, CompletedLine(FALSE, 0, "r1")},
                     b \in {DeltaLine(1, <<"a">>), SearchingLine,
                            CompletedLine(FALSE, 0, "")}}
    \cup {<<HeadOf(l)>> : l \in SplitLines}
    \cup {<<TailOf(l)>> : l \in SplitLines}

(***************************************************************************)
(* Spec: the Chat Session with every event of its environment; sendMessage *)
(* is not guarded by the code, so sessions may overlap.                    *)
(***************************************************************************)
Next ==
  \/ \E input \in Inputs : SendMessage(input)
  \/ \E s \in Sessions, status \in HttpStatuses, hasBody \in BOOLEAN :
       FetchResolves(s, status, hasBody)
  \/ \E s \in Sessions : FetchFails(s)
  \/ \E s \in Sessions : \E lines \in Chunks(s) : ReadChunk(s, lines)
  \/ \E s \in Sessions : ReadDone(s)
  \/ \E s \in Sessions, thrown \in ReadFailures : ReadFails(s, thrown)
  \/ \E s \in Sessions : TimerFires(s)
  \/ CancelStream
  \/ \E s \in Sessions, kind \in AbortRejections : AbortRejects(s, kind)
  \/ Frame

Spec == Init /\ [][Next]_vars

(***************************************************************************)
(* SpecStream: one session, fed any lines in any order.                    *)
(***************************************************************************)
SendFirst(input) == nSessions = 0 /\ SendMessage(input)

NextStream ==
  \/ \E input \in Inputs : SendFirst(input)
  \/ \E status \in HttpStatuses, hasBody \in BOOLEAN : FetchResolves(1, status, hasBody)
  \/ FetchFails(1)
  \/ \E lines \in AnyChunks : ReadChunk(1, lines)
  \/ ReadDone(1)
  \/ \E thrown \in ReadFailures : ReadFails(1, thrown)
  \/ TimerFires(1)
  \/ CancelStream
  \/ \E kind \in AbortRejections : AbortRejects(1, kind)
  \/ Frame

SpecStream == Init /\ [][NextStream]_vars

(***************************************************************************)
(* One session whose response arrives without failure, timeout or cancel:  *)
(* the read loop and the parser fed every chunk.                           *)
(***************************************************************************)
NextParse ==
  \/ \E input \in Inputs : SendFirst(input)
  \/ \E hasBody \in BOOLEAN : FetchResolves(1, 200, hasBody)
  \/ \E lines \in AnyChunks : ReadChunk(1, lines)
  \/ ReadDone(1)
  \/ Frame

SpecParse == Init /\ [][NextParse]_vars

\* One session whose server may leave gaps in the sequence numbers, go silent
\* or end the body at any point.  The timer, once armed, fires unless it is
\* cleared, and the event loop runs a continuation that is ready; nothing is
\* assumed of the network.
StallChunks ==
  {<<DeltaLine(n, <<"a">>)>> : n \in 1..MaxSeq}
    \cup {<<CompletedLine(FALSE, 0, "r1")>>, <<SearchingLine>>}

NextLive ==
  \/ \E input \in Inputs : SendFirst(input)
  \/ \E status \in HttpStatuses, hasBody \in BOOLEAN : FetchResolves(1, status, hasBody)
  \/ FetchFails(1)
  \/ \E lines \in StallChunks : ReadChunk(1, lines)
  \/ ReadDone(1)
  \/ \E thrown \in ReadFailures : ReadFails(1, thrown)
  \/ TimerFires(1)
  \/ CancelStream
  \/ \E kind \in AbortRejections : AbortRejects(1, kind)
  \/ Frame

SpecLive ==
  /\ Init
  /\ [][NextLive]_vars
  /\ WF_vars(TimerFires(1))
  /\ WF_vars(\E kind \in AbortRejections : AbortRejects(1, kind))

(***************************************************************************)
(* A conversation of several turns: the user sends the next message only   *)
(* after the session of the previous one has ended.                        *)
(***************************************************************************)
SendNext(input) ==
  /\ \A s \in Sessions : session[s].pc \in {"idle", "done"}
  /\ SendMessage(input)

NextTurns ==
  \/ \E input \in Inputs : SendNext(input)
  \/ \E s \in Sessions, status \in HttpStatuses, hasBody \in BOOLEAN :
       FetchResolves(s, status, hasBody)
  \/ \E s \in Sessions : FetchFails(s)
  \/ \E s \in Sessions : \E lines \in Chunks(s) : ReadChunk(s, lines)
  \/ \E s \in Sessions : ReadDone(s)
  \/ \E s \in Sessions, thrown \in ReadFailures : ReadFails(s, thrown)
  \/ \E s \in Sessions : TimerFires(s)
  \/ CancelStream
  \/ \E s \in Sessions, kind \in AbortRejections : AbortRejects(s, kind)
  \/ Frame

SpecTurns == Init /\ [][NextTurns]_vars

\* Sessions that may overlap, seen from the hook: what matters is which status
\* each session reports and when, so the server answers with one failing and
\* one successful status, always with a body; the display is not refreshed
\* (neither the flags nor the messages depend on the display snapshot).
NextOverlap ==
  \/ \E input \in Inputs : SendMessage(input)
  \/ \E s \in Sessions, status \in {200, 500} : FetchResolves(s, status, TRUE)
  \/ \E s \in Sessions : FetchFails(s)
  \/ \E s \in Sessions : \E lines \in Chunks(s) : ReadChunk(s, lines)
  \/ \E s \in Sessions : ReadDone(s)
  \/ \E s \in Sessions : TimerFires(s)
  \/ CancelStream
  \/ \E s \in Sessions, kind \in AbortRejections : AbortRejects(s, kind)

SpecOverlap == Init /\ [][NextOverlap]_vars

(***************************************************************************)
(* SpecBuffer: the Frame Buffer alone, under any sequence of appendChunk,  *)
(* clearBuffer and display refreshes.                                      *)
(***************************************************************************)
NextBuffer ==
  \/ \E chunk \in Deltas : AppendChunk(chunk)
  \/ ClearBuffer
  \/ Frame

SpecBuffer == Init /\ [][NextBuffer]_vars

(***************************************************************************)
(* Vocabulary of the properties.                                           *)
(***************************************************************************)
TerminalStatuses == {"completed", "error", "timeout", "cancelled"}

Started == {s \in Sessions : session[s].pc # "idle"}

IsPrefix(a, b) == Len(a) <= Len(b) /\ SubSeq(b, 1, Len(a)) = a

RECURSIVE Concat(_)
Concat(texts) ==
  IF texts = <<>> THEN <<>> ELSE Head(texts) \o Concat(Tail(texts))

\* The statuses of a session, as reported.
StatusNames(s) == [i \in DOMAIN session[s].statuses |-> session[s].statuses[i].status]

IsTerminalReport(r) == r.status \in TerminalStatuses
IsAbortReport(r) == r.status \in {"timeout", "cancelled"}
IsFormalReport(r) == ~(r.status = "streaming" /\ r.error # "")

TerminalReports(s) == SelectSeq(session[s].statuses, IsTerminalReport)
AbortReports(s) == SelectSeq(session[s].statuses, IsAbortReport)

\* The statuses of a session without the advisory pings.
FormalStatuses(s) ==
  LET f == SelectSeq(session[s].statuses, IsFormalReport)
  IN  [i \in DOMAIN f |-> f[i].status]

Reported(s, status) ==
  \E i \in DOMAIN session[s].statuses : session[s].statuses[i].status = status

\* The fragments that arrived so far carry the sequence numbers 1..N, each once.
ArrivedPermutation(s) ==
  LET a == session[s].arrived
  IN  \A n \in 1..Len(a) : \E i \in DOMAIN a : a[i].seq = n

ArrivedWith(s, n) ==
  LET a == session[s].arrived
  IN  a[CHOOSE i \in DOMAIN a : a[i].seq = n]

\* The non-empty deltas of fragments 1..n, in sequence order.
RECURSIVE DeltasInOrder(_, _)
DeltasInOrder(s, n) ==
  IF n = 0 THEN <<>>
  ELSE LET f == ArrivedWith(s, n)
       IN  DeltasInOrder(s, n - 1) \o (IF Truthy(f) THEN <<f.delta>> ELSE <<>>)

(***************************************************************************)
(* C1.  For any arrival order of fragments with the unique sequence        *)
(* numbers 1..N, the deltas passed to the chunk callback are exactly the   *)
(* non-empty deltas of fragments 1..N in increasing sequence order.        *)
(***************************************************************************)
C1_OrderedDelivery ==
  \A s \in Started :
    ArrivedPermutation(s) =>
      session[s].chunks = DeltasInOrder(s, Len(session[s].arrived))

\* Three fragments arrived, the first of them not fragment 1, and two
\* different deltas were delivered.
C1_Witness ==
  \E s \in Started :
    /\ Len(session[s].arrived) = 3
    /\ ArrivedPermutation(s)
    /\ session[s].arrived[1].seq = 3
    /\ session[s].arrived[2].seq = 1
    /\ Len(session[s].chunks) >= 2
    /\ session[s].chunks[1] # session[s].chunks[2]

(***************************************************************************)
(* C2.  If fragments 1..N all arrive, in any order, before the completion, *)
(* the assistant message committed on "completed" holds the concatenation  *)
(* of deltas 1..N in order, whether or not the last scheduled publish has  *)
(* fired.                                                                  *)
(***************************************************************************)
C2_CommitIsFullText ==
  \A s \in Started :
    (Reported(s, "completed") /\ ArrivedPermutation(s)) =>
      /\ session[s].commits =
           <<AssistantMessage(Concat(DeltasInOrder(s, Len(session[s].arrived))))>>
      /\ messages[Len(messages)] = session[s].commits[1]

\* A session completed by its completion event after fragments that arrived
\* out of order, with a publish still pending: the display never showed the
\* text that was committed.
C2_Witness ==
  \E s \in Started :
    /\ Reported(s, "completed")
    /\ session[s].result = "r1"
    /\ Len(session[s].arrived) = 2
    /\ ArrivedPermutation(s)
    /\ session[s].arrived[1].seq = 2
    /\ Len(session[s].commits) = 1
    /\ Len(session[s].commits[1].content) = 2
    /\ rafQueue > 0
    /\ frame.last = NoFrame

(***************************************************************************)
(* C3.  In every session the status callback is invoked with a terminal    *)
(* status exactly once, and no status is reported after it, on the         *)
(* timer-expiry path as on the others.                                     *)
(***************************************************************************)
C3_OneTerminalStatusLast ==
  \A s \in Started :
    LET st == session[s].statuses IN
    /\ Len(TerminalReports(s)) <= 1
    /\ \A i \in DOMAIN st : IsTerminalReport(st[i]) => i = Len(st)
    /\ session[s].pc = "done" => Len(TerminalReports(s)) = 1

(***************************************************************************)
(* C4.  Without the advisory pings, the statuses reported by a session     *)
(* that completes are starting, streaming, completed, and those of a       *)
(* session cancelled by the caller after a delta was released are          *)
(* starting, streaming, cancelled.                                         *)
(***************************************************************************)
CleanCompletion(s) ==
  /\ session[s].pc = "done"
  /\ ~session[s].aborted
  /\ Reported(s, "completed")

CancelledAfterDelta(s) ==
  /\ session[s].pc = "done"
  /\ session[s].reason = "cancelled"
  /\ session[s].chunks # <<>>

C4_StatusSequence ==
  \A s \in Started :
    /\ CleanCompletion(s) =>
         FormalStatuses(s) = <<"starting", "streaming", "completed">>
    /\ CancelledAfterDelta(s) =>
         FormalStatuses(s) = <<"starting", "streaming", "cancelled">>

(***************************************************************************)
(* C5.  A session that ends in error, timeout or cancelled appends no      *)
(* assistant message, and once its terminal status has been handled        *)
(* isStreaming and isLoading are both false.                               *)
(***************************************************************************)
Failed(s) ==
  \E i \in DOMAIN session[s].statuses :
    session[s].statuses[i].status \in {"error", "timeout", "cancelled"}

C5_NoPartialCommit ==
  \A s \in Started :
    Failed(s) =>
      /\ session[s].commits = <<>>
      /\ \A i \in DOMAIN messages : messages[i].role # "assistant"
      /\ ~isStreaming
      /\ ~isLoading

\* A session that failed after text had been accumulated: the text is still
\* in the buffer and only the user message is in the list.
C5_Witness ==
  \E s \in Started :
    /\ session[s].pc = "done"
    /\ Failed(s)
    /\ session[s].chunks # <<>>
    /\ bufferRef # <<>>
    /\ Len(messages) = 1

(***************************************************************************)
(* C6.  When the timer fires and the user cancels at the same moment, in   *)
(* either order, exactly one of timeout / cancelled is reported, it is the *)
(* one whose reason the signal recorded, and the timer and the reader are  *)
(* cleaned up exactly once.                                                *)
(***************************************************************************)
C6_OneAbortReport ==
  \A s \in Started :
    (session[s].pc = "done" /\ session[s].aborted) =>
      /\ Len(AbortReports(s)) = 1
      /\ AbortReports(s)[1].status = session[s].reason
      /\ session[s].timerClears = 1
      /\ session[s].releases = IF session[s].reader = "none" THEN 0 ELSE 1

(***************************************************************************)
(* C7.  A session aborted by cancelStream is reported as cancelled and     *)
(* never as timeout or error; a timer expiry aborts with the reason        *)
(* "timeout" and is reported as timeout and never as cancelled or error.   *)
(***************************************************************************)
C7_ReasonDecidesStatus ==
  \A s \in Started :
    (session[s].pc = "done" /\ session[s].aborted) =>
      /\ session[s].reason \in {"cancelled", "timeout"}
      /\ Reported(s, session[s].reason)
      /\ \A other \in {"cancelled", "timeout", "error"} \ {session[s].reason} :
           ~Reported(s, other)

(***************************************************************************)
(* C8.  For a burst of appendChunk calls between two display refreshes,    *)
(* with no clearBuffer in between, exactly one publish is made by the      *)
(* refresh that follows, and it publishes the whole accumulated buffer.    *)
(***************************************************************************)
C8_OnePublishPerInterval ==
  (frame.last.appended > 0 /\ ~frame.last.cleared) =>
    /\ frame.last.publishes = 1
    /\ frame.last.published = frame.last.buffer

\* A refresh that followed a burst of two or more calls.
C8_Witness ==
  /\ frame.last.appended = 2
  /\ ~frame.last.cleared
  /\ frame.last.publishes = 1
  /\ Len(frame.last.published) >= 2

(***************************************************************************)
(* C9.  clearBuffer cancels any pending scheduled publish, so that at most *)
(* one publish callback is pending at any time.                            *)
(***************************************************************************)
C9_AtMostOnePending == rafQueue <= 1

(***************************************************************************)
(* C10.  In every reachable state the display snapshot is a prefix of, or  *)
(* equal to, the authoritative buffer.                                     *)
(***************************************************************************)
C10_SnapshotIsPrefix == IsPrefix(displayText, getFullText(Hook))

\* The snapshot lags: something was published and more was appended since.
C10_Witness ==
  /\ displayText # <<>>
  /\ Len(displayText) < Len(bufferRef)
  /\ IsPrefix(displayText, bufferRef)

(***************************************************************************)
(* Lines the parser skips, and what a step of the parser did apart from    *)
(* the history it keeps about skipped and unread lines.                    *)
(***************************************************************************)
IllFormedLines ==
  {MalformedLine, BlankLine}
    \cup {HeadOf(l) : l \in SplitLines} \cup {TailOf(l) : l \in SplitLines}

Effects(w) == [w EXCEPT !.s.ignored = 0, !.s.unread = 0]

Reading(s) == s \in Started /\ session[s].pc = "read"

LastReport(s) == session[s].statuses[Len(session[s].statuses)]

\* The server answered with a status outside 200..299.
HttpFailure(s) == session[s].httpStatus # 0 /\ ~ok(session[s].httpStatus)

\* Valid lines of every kind a reading session can be sent next: the fragment
\* it waits for, a fragment ahead of it, a search notice, a completion event.
FollowLines(s) ==
  {DeltaLine(session[s].expectedSequence, <<"a">>),
   DeltaLine(session[s].expectedSequence + 1, <<"b">>),
   SearchingLine,
   CompletedLine(FALSE, 0, "r1")}

(***************************************************************************)
(* C11.  A line that does not start with the "data: " prefix, or whose     *)
(* payload is not valid JSON, has no effect: the session does not end, no  *)
(* chunk and no status is reported, the pending table and the expected     *)
(* sequence number stay as they were, and a valid line that follows it is  *)
(* processed as if the line had not been there.                            *)
(***************************************************************************)
C11_IllFormedLineIgnored ==
  \A s \in Sessions : Reading(s) =>
    \A bad \in IllFormedLines :
      LET w  == World(s)
          w1 == processLine(w, bad)
      IN  /\ w1.s.pc = "read"
          /\ w1.s.chunks = w.s.chunks
          /\ w1.s.statuses = w.s.statuses
          /\ w1.s.chunkBuffer = w.s.chunkBuffer
          /\ w1.s.expectedSequence = w.s.expectedSequence
          /\ Effects(w1) = Effects(w)
          /\ \A l \in FollowLines(s) :
               Effects(processLines(w, <<bad, l>>)) = Effects(processLines(w, <<l>>))

\* One read delivered a skipped line and a fragment: the fragment was
\* delivered and the session is still reading.
C11_Witness ==
  \E s \in Sessions :
    /\ Reading(s)
    /\ reads = 1
    /\ session[s].ignored = 1
    /\ session[s].chunks = << <<"a">> >>
    /\ session[s].expectedSequence = 2

(***************************************************************************)
(* C12.  Parsing does not depend on where the chunk boundaries fall: a     *)
(* line delivered in two reads, cut in its middle, leads to the same chunk *)
(* deltas and the same status reports as the line delivered whole.         *)
(***************************************************************************)
C12_SplitLineSameEffect ==
  \A s \in Sessions : Reading(s) =>
    \A l \in FollowLines(s) :
      LET whole == processLines(World(s), <<l>>)
          first == processLines(World(s), <<HeadOf(l)>>)
          split == processLines(first, <<TailOf(l)>>)
      IN  /\ split.s.chunks = whole.s.chunks
          /\ split.s.statuses = whole.s.statuses

(***************************************************************************)
(* C13.  The timeout timer is cleared on every terminal path (completion   *)
(* event, end of the body, HTTP or other error, user cancel): once a       *)
(* terminal status has been reported the timer is not armed, and its       *)
(* callback does not run after a terminal status: where it ran, its        *)
(* "timeout" is the first terminal status of the session.                  *)
(***************************************************************************)
C13_TimerClearedOnTerminal ==
  \A s \in Started :
    /\ TerminalReports(s) # <<>> => session[s].timer # "armed"
    /\ session[s].pc = "done" => session[s].timer # "armed"
    /\ session[s].timer = "fired" =>
         /\ TerminalReports(s) # <<>>
         /\ TerminalReports(s)[1].status = "timeout"
    /\ session[s].exit \in {"event", "exhausted"} => session[s].timer = "cleared"
    /\ (session[s].exit = "catch" /\ session[s].reason # "timeout") =>
         session[s].timer = "cleared"

\* The user cancelled while the body was being read: the catch block cleared
\* the timer before it reported.
C13_Witness ==
  \E s \in Started :
    /\ session[s].reason = "cancelled"
    /\ session[s].reader = "released"
    /\ session[s].pc = "done"
    /\ session[s].timer = "cleared"
    /\ TerminalReports(s) # <<>>

(***************************************************************************)
(* C14.  Once the reader has been acquired it is released exactly once on  *)
(* every exit path (return on the completion event, end of the body,       *)
(* abort, failure during a read): it is never released twice and never     *)
(* left locked; a session that never acquired it releases nothing.         *)
(***************************************************************************)
C14_ReaderReleasedOnce ==
  \A s \in Started :
    /\ session[s].releases <= 1
    /\ session[s].pc = "fetch" => session[s].reader = "none"
    /\ session[s].pc = "read" =>
         (session[s].reader = "locked" /\ session[s].releases = 0)
    /\ session[s].pc = "done" =>
         \/ session[s].reader = "none" /\ session[s].releases = 0
         \/ session[s].reader = "released" /\ session[s].releases = 1
    /\ (session[s].pc = "done" /\ Reported(s, "streaming")) =>
         (session[s].reader = "released" /\ session[s].releases = 1)

\* The completion event returned from inside the loop and the reader was
\* released on the way out.
C14_Witness ==
  \E s \in Started :
    /\ session[s].exit = "event"
    /\ session[s].reader = "released"
    /\ session[s].releases = 1

(***************************************************************************)
(* C15.  No failure escapes streamChat: a non-success HTTP response, a     *)
(* missing body, an abort and a failure thrown during a read all end in    *)
(* the catch block, which reports a terminal status last and returns null. *)
(* A failure that is not an abort is reported as "error" with the message  *)
(* of the Error that was thrown, or with "Unknown error" when the thrown   *)
(* value is not an Error and so carries no message.                        *)
(***************************************************************************)
C15_FailuresReportedAndNull ==
  \A s \in Started :
    /\ HttpFailure(s) =>
         (session[s].exit = "catch"
            /\ session[s].caught.message = ApiError(session[s].httpStatus))
    /\ session[s].exit = "catch" =>
         /\ session[s].pc = "done"
         /\ session[s].result = Null
         /\ session[s].statuses # <<>>
         /\ IsTerminalReport(LastReport(s))
    /\ (session[s].exit = "catch" /\ ~session[s].aborted) =>
         LastReport(s) =
           [status |-> "error",
            error |-> IF session[s].caught.isError
                        THEN session[s].caught.message
                        ELSE "Unknown error"]

\* A read was rejected with a value that is not an Error: the reader was
\* released and the generic message reported.
C15_Witness ==
  \E s \in Started :
    /\ session[s].exit = "catch"
    /\ ~session[s].aborted
    /\ ~session[s].caught.isError
    /\ session[s].reader = "released"
    /\ LastReport(s) = [status |-> "error", error |-> "Unknown error"]
    /\ session[s].result = Null

(***************************************************************************)
(* C16.  When the server answers with a non-success HTTP status the        *)
(* session reports "error" with the message made from that status and      *)
(* ends: that report is its only one, so "streaming" is never reported,    *)
(* the chunk callback is never invoked, the reader is never taken, the     *)
(* request is not made again, and streamChat returns null.                 *)
(***************************************************************************)
C16_HttpErrorEndsSession ==
  \A s \in Started : HttpFailure(s) =>
    /\ session[s].pc = "done"
    /\ session[s].statuses =
         << [status |-> "error", error |-> ApiError(session[s].httpStatus)] >>
    /\ ~Reported(s, "streaming")
    /\ session[s].chunks = <<>>
    /\ session[s].reader = "none"
    /\ session[s].result = Null

\* The server answered 404.
C16_Witness ==
  \E s \in Started :
    /\ session[s].httpStatus = 404
    /\ session[s].statuses = << [status |-> "error", error |-> "API Error: 404"] >>
    /\ session[s].pc = "done"
    /\ session[s].result = Null

(***************************************************************************)
(* C17.  If the body ends (a read returns done) and no completion event    *)
(* was parsed, the session reports "completed" exactly once, as its last   *)
(* report and its only terminal one, and streamChat returns: no error is   *)
(* reported, the reader is released, the timer is cleared and the result   *)
(* is the null response id.                                                *)
(***************************************************************************)
C17_ExhaustionCompletes ==
  \A s \in Started : session[s].exit = "exhausted" =>
    /\ session[s].pc = "done"
    /\ TerminalReports(s) = << [status |-> "completed", error |-> ""] >>
    /\ LastReport(s).status = "completed"
    /\ ~Reported(s, "error")
    /\ session[s].reader = "released"
    /\ session[s].timer = "cleared"
    /\ session[s].result = Null

\* The body ended after a fragment had been delivered and with another still
\* waiting in the pending table.
C17_Witness ==
  \E s \in Started :
    /\ session[s].exit = "exhausted"
    /\ session[s].chunks # <<>>
    /\ DOMAIN session[s].chunkBuffer # {}
    /\ StatusNames(s) = <<"streaming", "completed">>
    /\ session[s].pc = "done"

(***************************************************************************)
(* C18.  At most one streaming session is in flight per Chat Session at    *)
(* any time: a sendMessage issued while a session has not reached a        *)
(* terminal status does not put a second session in flight, and the text   *)
(* in the Frame Buffer is made of the deltas of one session only.          *)
(***************************************************************************)
InFlight == {s \in Started : Suspended(session[s])}

C18_OneSessionInFlight ==
  /\ Cardinality(InFlight) <= 1
  /\ bufferRef # <<>> =>
       \E s \in Started : bufferRef = Concat(session[s].chunks)

(***************************************************************************)
(* C19.  Whenever a session is in flight, cancelStream() signals           *)
(* cancellation on the controller of a session in flight; when none is in  *)
(* flight it changes nothing and reports nothing; and a second call right  *)
(* after the first changes nothing more.                                   *)
(***************************************************************************)
C19_CancelSignalsOrNoOp ==
  microtask = NoSession =>
    LET once  == cancelStream(session, abortController)
        twice == cancelStream(once, abortController)
    IN  /\ InFlight # {} =>
             \E s \in InFlight : once[s].aborted /\ once[s].reason = "cancelled"
        /\ InFlight = {} => once = session
        /\ twice = once

(***************************************************************************)
(* C20.  When a "response.completed" event is parsed the session reports   *)
(* "completed" and ends at once: streamChat returns the response id of the *)
(* event if it has one and null otherwise; no line after the event is      *)
(* processed or causes a callback ("completed" stays the last report and   *)
(* the only terminal one, the text committed is all the text delivered,    *)
(* the buffer stays empty, and a session that has returned never changes   *)
(* again); and a session that ended with any other terminal status         *)
(* returned null.                                                          *)
(***************************************************************************)
C20_AtCompletion ==
  \A s \in Started :
    /\ session[s].exit = "event" =>
         /\ session[s].pc = "done"
         /\ session[s].result =
              IF session[s].event # "" THEN session[s].event ELSE Null
         /\ LastReport(s) = [status |-> "completed", error |-> ""]
         /\ TerminalReports(s) = << LastReport(s) >>
         /\ bufferRef = <<>>
         /\ session[s].commits = << AssistantMessage(Concat(session[s].chunks)) >>
    /\ (session[s].pc = "done" /\ LastReport(s).status # "completed") =>
         session[s].result = Null

C20_CompletedEndsSession ==
  /\ []C20_AtCompletion
  /\ [][\A s \in Sessions :
          session[s].pc = "done" => session'[s] = session[s]]_vars

\* The completion event carried an id and was followed by another line in the
\* same read, which was never looked at.
C20_Witness ==
  \E s \in Started :
    /\ session[s].exit = "event"
    /\ session[s].unread = 1
    /\ session[s].result = "r1"
    /\ session[s].chunks # <<>>

(***************************************************************************)
(* C21.  After every reassembly pass, whatever sequence numbers arrive     *)
(* (numbers below 1 and numbers already released included), every key of   *)
(* the pending table is greater than or equal to expectedSequence, and the *)
(* table has no entry at expectedSequence.                                 *)
(***************************************************************************)
C21_PendingKeysAhead ==
  \A s \in Started :
    /\ \A k \in DOMAIN session[s].chunkBuffer : k >= session[s].expectedSequence
    /\ session[s].expectedSequence \notin DOMAIN session[s].chunkBuffer

(***************************************************************************)
(* C22.  expectedSequence starts at 1 in every session, never decreases,   *)
(* and grows by exactly 1 for each fragment released from the pending      *)
(* table, with or without a delta: at any time it equals 1 plus the number *)
(* of fragments released so far, and the n-th fragment released is the one *)
(* numbered n.                                                             *)
(***************************************************************************)
C22_CountsReleased ==
  \A s \in Sessions :
    /\ session[s].expectedSequence = 1 + Len(session[s].released)
    /\ session[s].pc \in {"idle", "fetch"} => session[s].expectedSequence = 1
    /\ \A n \in DOMAIN session[s].released : session[s].released[n].seq = n

C22_ExpectedSequence ==
  /\ []C22_CountsReleased
  /\ [][\A s \in Sessions :
          session'[s].expectedSequence >= session[s].expectedSequence]_vars

\* Two fragments were released, one of them without a delta.
C22_Witness ==
  \E s \in Started :
    /\ session[s].expectedSequence = 3
    /\ Len(session[s].released) = 2
    /\ Len(session[s].chunks) = 1

(***************************************************************************)
(* Fragments and their deltas.                                             *)
(***************************************************************************)
\* The deltas the chunk callback gets for a sequence of fragments.
RECURSIVE TruthyDeltas(_)
TruthyDeltas(fragments) ==
  IF fragments = <<>> THEN <<>>
  ELSE (IF Truthy(Head(fragments)) THEN <<Head(fragments).delta>> ELSE <<>>)
         \o TruthyDeltas(Tail(fragments))

\* Some fragment numbered n has arrived.
HasArrived(s, n) ==
  \E i \in DOMAIN session[s].arrived : session[s].arrived[i].seq = n

\* Fragments 1..n have all arrived: no gap below n.
NoGapUpTo(s, n) == \A m \in 1..n : HasArrived(s, m)

(***************************************************************************)
(* C23 as stated.  For every session that reports "completed", every       *)
(* fragment that was stored in the pending table has had its delta         *)
(* delivered to the chunk callback before "completed" was reported.        *)
(***************************************************************************)
C23_NothingDropped ==
  \A s \in Started : Reported(s, "completed") =>
    \A i \in DOMAIN session[s].arrived :
      \E n \in DOMAIN session[s].released :
        session[s].released[n] = session[s].arrived[i]

(***************************************************************************)
(* C23, amended.  For every session that reports "completed", the deltas   *)
(* delivered are those of the fragments released, in sequence order, and   *)
(* every fragment numbered n for which 1..n had all arrived was released   *)
(* before "completed" was reported; what is left in the pending table is   *)
(* numbered below 1, was already released, or waits behind a number that   *)
(* never arrived, and is dropped.                                          *)
(***************************************************************************)
C23_DeliveredUpToGap ==
  \A s \in Started : Reported(s, "completed") =>
    /\ session[s].chunks = TruthyDeltas(session[s].released)
    /\ \A n \in 1..Len(session[s].arrived) :
         NoGapUpTo(s, n) => n <= Len(session[s].released)
    /\ \A k \in DOMAIN session[s].chunkBuffer :
         \/ k < 1
         \/ k <= Len(session[s].released)
         \/ ~NoGapUpTo(s, k)

\* A session completed with a fragment delivered and another left behind a gap.
C23_Witness ==
  \E s \in Started :
    /\ Reported(s, "completed")
    /\ session[s].chunks # <<>>
    /\ \E k \in DOMAIN session[s].chunkBuffer : k > session[s].expectedSequence

(***************************************************************************)
(* C24.  A parsed fragment that carries no sequence number is passed       *)
(* through at once: its delta reaches the chunk callback when the line is  *)
(* processed, and the pending table and expectedSequence stay as they      *)
(* were.                                                                   *)
(***************************************************************************)
C24_UnnumberedPassedThrough ==
  \A s \in Sessions : Reading(s) =>
    LET w1 == processLine(World(s), UnnumberedLine(<<"a">>))
    IN  /\ w1.s.chunks = Append(session[s].chunks, <<"a">>)
        /\ w1.s.chunkBuffer = session[s].chunkBuffer
        /\ w1.s.expectedSequence = session[s].expectedSequence

\* The fragment received last with number n.
LastArrivedWith(s, n) ==
  LET a == session[s].arrived
      i == CHOOSE i \in DOMAIN a :
             a[i].seq = n /\ \A j \in DOMAIN a : a[j].seq = n => j <= i
  IN  a[i]

(***************************************************************************)
(* C25.  A duplicate of a sequence number that is still pending overwrites *)
(* the pending entry: every entry of the table is the fragment received    *)
(* last with its number, and when the gap closes the fragment released for *)
(* a pending number is that last fragment; one fragment is released per    *)
(* number and the chunk callback gets the deltas of the released ones.     *)
(***************************************************************************)
C25_TableHoldsLast ==
  \A s \in Started :
    /\ \A k \in DOMAIN session[s].chunkBuffer :
         session[s].chunkBuffer[k] = LastArrivedWith(s, k)
    /\ \A n \in DOMAIN session[s].released : session[s].released[n].seq = n
    /\ session[s].chunks = TruthyDeltas(session[s].released)

C25_DuplicateOverwrites ==
  /\ []C25_TableHoldsLast
  /\ [][\A s \in Sessions :
          \A n \in DOMAIN session[s].chunkBuffer :
            (n > session[s].expectedSequence /\ n < session'[s].expectedSequence)
              => session'[s].released[n] = LastArrivedWith(s, n)]_vars

\* Number 2 arrived twice with different deltas, then 1: the second of the
\* two was released for number 2.
C25_Witness ==
  \E s \in Started :
    LET a == session[s].arrived IN
    /\ Len(a) = 3
    /\ a[1].seq = 2 /\ a[2].seq = 2 /\ a[3].seq = 1
    /\ Truthy(a[1]) /\ Truthy(a[2]) /\ a[1].delta # a[2].delta
    /\ Len(session[s].released) = 2
    /\ session[s].released[2] = a[2]
    /\ session[s].chunks[Len(session[s].chunks)] = a[2].delta

C27_FullTextSinceClear == getFullText(Hook) = frame.sinceClear

\* Text appended before a clearBuffer is gone, and text appended after a
\* publish is there although the snapshot does not show it yet.
C27_Witness ==
  /\ frame.last.cleared
  /\ frame.last.appended = 2
  /\ frame.last.published = <<"a">>
  /\ displayText = <<"a">>
  /\ getFullText(Hook) = <<"a", "b">>

(***************************************************************************)
(* C30.  Whenever no publish callback is pending in the Frame Buffer, the  *)
(* display snapshot equals the authoritative buffer: every appended text   *)
(* is published once the scheduled frame callbacks have fired, for any     *)
(* interleaving of appendChunk, clearBuffer and frame callbacks.           *)
(***************************************************************************)
C30_SettledSnapshot ==
  /\ (rafQueue = 0) => (displayText = getFullText(Hook))
  /\ ~renderScheduled => (displayText = getFullText(Hook))

\* Two callbacks were pending, one of them left over by a clearBuffer; both
\* have fired and the snapshot shows the two texts appended after the clear.
C30_Witness ==
  /\ rafQueue = 0
  /\ frame.last.cleared
  /\ frame.last.publishes = 2
  /\ displayText = <<"a", "b">>
  /\ getFullText(Hook) = <<"a", "b">>

(***************************************************************************)
(* Late duplicates.                                                        *)
(***************************************************************************)
\* The sequence numbers of the fragments handed to the chunk callback.
RECURSIVE DeliveredNumbers(_)
DeliveredNumbers(fragments) ==
  IF fragments = <<>> THEN <<>>
  ELSE (IF Truthy(Head(fragments)) THEN <<Head(fragments).seq>> ELSE <<>>)
         \o DeliveredNumbers(Tail(fragments))

\* The fragments that arrived in the step.
NewArrivals(s) ==
  SubSeq(session'[s].arrived, Len(session[s].arrived) + 1,
         Len(session'[s].arrived))

(***************************************************************************)
(* C28.  Within one session the chunk callback is invoked at most once per *)
(* sequence number: the numbers of the fragments it was invoked for are    *)
(* strictly increasing and as many as its invocations; a read that brings  *)
(* only fragments whose numbers had already been released (late            *)
(* duplicates) invokes it for none of them and leaves expectedSequence as  *)
(* it was.                                                                 *)
(***************************************************************************)
C28_OncePerNumber ==
  \A s \in Started :
    LET d == DeliveredNumbers(session[s].released) IN
    /\ Len(session[s].chunks) = Len(d)
    /\ \A i, j \in DOMAIN d : i < j => d[i] < d[j]

Stalled(s) ==
  /\ session[s].chunkBuffer # EmptyMap
  /\ session[s].expectedSequence \notin DOMAIN session[s].chunkBuffer
  /\ ~HasArrived(s, session[s].expectedSequence)

(***************************************************************************)
(* C29.  Every session eventually reports a terminal status, given that    *)
(* the timer fires unless cleared: also a session whose reassembly is      *)
(* stalled by a sequence number that never arrives, and whatever the       *)
(* server does or fails to do, ends with a terminal status.                *)
(***************************************************************************)
C29_EventuallyTerminal ==
  \A s \in {1} :
    /\ (session[s].pc # "idle") ~> (TerminalReports(s) # <<>>)
    /\ Stalled(s) ~> (TerminalReports(s) # <<>>)

\* A session that never got number 1 and was ended by its timer.
C29_Witness ==
  /\ Stalled(1)
  /\ TerminalReports(1) # <<>>
  /\ session[1].expectedSequence = 1
  /\ session[1].chunks = <<>>
  /\ TerminalReports(1)[1].status = "timeout"
  /\ session[1].pc = "done"

(***************************************************************************)
(* C31.  In every reachable state of the Chat Session isLoading implies    *)
(* isStreaming: the loading flag is never true while the streaming flag is *)
(* false, for any interleaving of sendMessage, cancelStream and status     *)
(* callbacks, of overlapping sessions as well.                             *)
(***************************************************************************)
C31_LoadingImpliesStreaming == isLoading => isStreaming

\* A second sendMessage raised the loading flag again while the first
\* session, which had already reported "streaming", is still reading.
C31_Witness ==
  /\ session[1].pc = "read"
  /\ Reported(1, "streaming")
  /\ session[2].pc = "fetch"
  /\ isLoading
  /\ isStreaming

(***************************************************************************)
(* The message list.                                                       *)
(***************************************************************************)
IsUser(m) == m.role = "user"
IsAssistant(m) == m.role = "assistant"

(***************************************************************************)
(* C32.  The message list is append-only and every session commits at     *)
(* most one assistant Message: no step removes, reorders or modifies a     *)
(* message that is in the list, and in every reachable state the assistant *)
(* messages are at most as many as the user messages.                      *)
(***************************************************************************)
C32_OneCommitPerSession ==
  /\ \A s \in Sessions : Len(session[s].commits) <= 1
  /\ Len(SelectSeq(messages, IsAssistant)) <= Len(SelectSeq(messages, IsUser))
  /\ Len(SelectSeq(messages, IsUser)) = nSessions

C32_AppendOnly ==
  /\ []C32_OneCommitPerSession
  /\ [][IsPrefix(messages, messages')]_vars

\* Two overlapping sessions have both completed: two user messages, then two
\* assistant messages.
C32_Witness ==
  /\ Len(messages) = 4
  /\ IsUser(messages[1]) /\ IsUser(messages[2])
  /\ IsAssistant(messages[3]) /\ IsAssistant(messages[4])
  /\ \A s \in Sessions : Len(session[s].commits) = 1

(***************************************************************************)
(* Turns.                                                                  *)
(***************************************************************************)
\* An earlier session ended in error, timeout or cancelled after text had
\* been accumulated.
FailedWithText(r) == Failed(r) /\ session[r].chunks # <<>>

(***************************************************************************)
(* C33.  When sessions run one after another, each sendMessage issued      *)
(* after the previous session has ended, the assistant Message committed   *)
(* for a turn is the concatenation of the deltas released by that turn's   *)
(* session and nothing else: text accumulated by an earlier session that   *)
(* ended in error, timeout or cancelled is not in it, and the buffer is    *)
(* empty when a turn starts.                                               *)
(***************************************************************************)
C33_CommitOfOwnTurn ==
  \A s \in Started :
    /\ session[s].commits # <<>> =>
         /\ Len(session[s].commits) = 1
         /\ session[s].commits[1].role = "assistant"
         /\ session[s].commits[1].content = Concat(session[s].chunks)
    /\ session[s].pc = "fetch" => getFullText(Hook) = <<>>

\* The first turn failed with text in the buffer; the second turn completed
\* and committed its own text.
C33_Witness ==
  /\ nSessions = 2
  /\ FailedWithText(1)
  /\ session[1].commits = <<>>
  /\ session[2].chunks # <<>>
  /\ Reported(2, "completed")
  /\ Len(messages) = 3
  /\ messages[3] = AssistantMessage(Concat(session[2].chunks))

====
